---- MODULE Spec2Model ----
(***************************************************************************)
(* Cybersecurity Awareness Game API (src/main.py, src/schemas.py).         *)
(*                                                                         *)
(* The state is the document store (collections user, question, attempt,   *)
(* progress), the wall clock read by login, and for every request worker   *)
(* its position inside a handler (pc), the handler's local variables       *)
(* (local) and the last HTTP response it produced (resp).  A handler is    *)
(* cut at its store calls: every action is one store call together with    *)
(* the local computation that follows it up to the next store call, so     *)
(* the interleavings of the model are those of the store calls.            *)
(*                                                                         *)
(* Modelled with a configured store (db is not None).  Document fields     *)
(* that no handler ever reads back (prompt, explanation, difficulty,       *)
(* created_at, updated_at) are left out of the documents.                  *)
(* A score is kept in hundredths of a percent: 3333 stands for 33.33.      *)
(***************************************************************************)
EXTENDS Integers, Sequences, FiniteSets, TLC

VARIABLES users, questions, attempts, progress, now, pc, local, resp

vars == <<users, questions, attempts, progress, now, pc, local, resp>>

\* ------------------------------------------------------------- bounds
NProcs == 2
MaxUsers == 2
MaxClock == 1
MaxQuestions == 4
MaxBank == 2
MaxAttempts == 2
MaxSeqBank == 1
MaxSeqAttempts == 1
MaxScoreBank == 3
MaxAnswers == 2
MaxScored == 1
MaxRaceAttempts == 3
MaxRaceUsers == 3
MaxFailAttempts == 3
MaxLogAttempts == 2

Procs == 1..NProcs
SeqProcs == {1}

Names == {"Ann"}
Emails == {"a@x.io", "b@x.io"}
Passwords == {"pw1", "pw2"}
Categories == {"phishing", "credential"}
OptionLists == {<<"o1">>, <<"o1", "o2">>, <<"o1", "o2", "o3">>}
Indices == -1..3

\* ------------------------------------------------------------- values
\* Python's None, as stored in User.token by register
None == <<"None">>
\* the empty token string of a request
EmptyStr == <<"">>
\* find_one's "no document": document ids are positions 1..Len(collection)
NoDoc == 0

hash_password(password) == <<"sha256", password>>

\* a token derived from the clock alone
make_token_nouid(user_id, utcnow) == <<"sha256", utcnow>>

\* sha256(f"{user['_id']}{datetime.utcnow()}").hexdigest()
make_token(user_id, utcnow) == <<"sha256", user_id, utcnow>>

\* a user created with a token already set
User_with_token(name, email, password_hash) ==
    [name |-> name, email |-> email, password_hash |-> password_hash,
     token |-> make_token(1, 0)]

User(name, email, password_hash) ==
    [name |-> name, email |-> email, password_hash |-> password_hash, token |-> None]

\* ------------------------------------------------------------- store
\* find_one: the first document of the collection, in natural (insertion)
\* order, that satisfies the filter; NoDoc when there is none
\* (hits: the positions of the documents that satisfy the filter)
find_one(hits) ==
    IF hits = {} THEN NoDoc ELSE CHOOSE i \in hits : \A j \in hits : i <= j

\* create_document(collection, model): insert, the new document's id returned
create_document(coll, doc) == Append(coll, doc)

inserted_id(coll) == Len(coll) + 1

Idle == [op |-> "none"]

Init ==
    /\ users = <<>>
    /\ questions = <<>>
    /\ attempts = <<>>
    /\ progress = <<>>
    /\ now = 0
    /\ pc = [p \in Procs |-> "idle"]
    /\ local = [p \in Procs |-> Idle]
    /\ resp = [p \in Procs |-> Idle]

\* datetime.utcnow() is the wall clock: two reads may return the same value
Tick ==
    /\ now < MaxClock
    /\ now' = now + 1
    /\ UNCHANGED <<users, questions, attempts, progress, pc, local, resp>>

\* ------------------------------------------------------------- auth
\* the uniqueness check left out
register_existing_unchecked(email) == NoDoc

register_existing(email) == find_one({i \in 1..Len(users) : users[i].email = email})

\* register, up to the uniqueness check
register(p, name, email, password) ==
    /\ pc[p] = "idle"
    /\ IF register_existing(email) # NoDoc
       THEN /\ resp' = [resp EXCEPT ![p] = [op |-> "register", email |-> email,
                                            status |-> 400]]
            /\ local' = [local EXCEPT ![p] = Idle]
            /\ UNCHANGED pc
       ELSE /\ pc' = [pc EXCEPT ![p] = "register_insert"]
            /\ local' = [local EXCEPT ![p] =
                   [op |-> "register", email |-> email,
                    user |-> User(name, email, hash_password(password))]]
            /\ resp' = [resp EXCEPT ![p] = Idle]
    /\ UNCHANGED <<users, questions, attempts, progress, now>>

\* register, create_document("user", user) and the response
register_insert(p) ==
    /\ pc[p] = "register_insert"
    /\ users' = create_document(users, local[p].user)
    /\ resp' = [resp EXCEPT ![p] = [op |-> "register", email |-> local[p].email,
                                    status |-> 200, user_id |-> inserted_id(users)]]
    /\ pc' = [pc EXCEPT ![p] = "idle"]
    /\ UNCHANGED <<questions, attempts, progress, now, local>>

\* the password left out of the lookup
login_user_by_email(email, password) ==
    find_one({i \in 1..Len(users) : users[i].email = email})

login_user(email, password) ==
    find_one({i \in 1..Len(users) : /\ users[i].email = email
                                     /\ users[i].password_hash = hash_password(password)})

\* login, up to the token's computation
login(p, email, password) ==
    /\ pc[p] = "idle"
    /\ LET user == login_user(email, password)
       IN  IF user = NoDoc
           THEN /\ resp' = [resp EXCEPT ![p] = [op |-> "login", email |-> email,
                                password |-> password, status |-> 401]]
                /\ local' = [local EXCEPT ![p] = Idle]
                /\ UNCHANGED pc
           ELSE /\ pc' = [pc EXCEPT ![p] = "login_update"]
                /\ local' = [local EXCEPT ![p] =
                       [op |-> "login", email |-> email, password |-> password,
                        user |-> user, token |-> make_token(user, now)]]
                /\ resp' = [resp EXCEPT ![p] = Idle]
    /\ UNCHANGED <<users, questions, attempts, progress, now>>

\* the token stored only when the user has none yet
login_update_keep(p) ==
    /\ pc[p] = "login_update"
    /\ users' = [users EXCEPT ![local[p].user].token =
                     IF @ = None THEN local[p].token ELSE @]
    /\ resp' = [resp EXCEPT ![p] =
           [op |-> "login", email |-> local[p].email, password |-> local[p].password,
            status |-> 200, token |-> local[p].token, user |-> local[p].user]]
    /\ pc' = [pc EXCEPT ![p] = "idle"]
    /\ UNCHANGED <<questions, attempts, progress, now, local>>

\* login, update_one({"_id": user["_id"]}, {"$set": {"token": token}}) and the response
login_update(p) ==
    /\ pc[p] = "login_update"
    /\ users' = [users EXCEPT ![local[p].user].token = local[p].token]
    /\ resp' = [resp EXCEPT ![p] =
           [op |-> "login", email |-> local[p].email, password |-> local[p].password,
            status |-> 200, token |-> local[p].token, user |-> local[p].user]]
    /\ pc' = [pc EXCEPT ![p] = "idle"]
    /\ UNCHANGED <<questions, attempts, progress, now, local>>

\* get_user_by_token over a given state of the user collection
find_token(coll, token) ==
    IF token = EmptyStr
    THEN NoDoc
    ELSE find_one({i \in 1..Len(coll) : coll[i].token = token})

get_user_by_token(token) == find_token(users, token)

\* ------------------------------------------------------------- content
\* Question(**body.model_dump()): options min_length=2, correct_index ge=0
QuestionValid(options, correct_index) ==
    /\ Len(options) >= 2
    /\ correct_index >= 0

Question(category, options, correct_index) ==
    [category |-> category, options |-> options, correct_index |-> correct_index]

\* create_question: a body the schema rejects raises before the insert
create_question(p, category, options, correct_index) ==
    /\ pc[p] = "idle"
    /\ IF QuestionValid(options, correct_index)
       THEN /\ questions' = create_document(questions,
                                Question(category, options, correct_index))
            /\ resp' = [resp EXCEPT ![p] =
                   [op |-> "create_question", status |-> 200,
                    id |-> inserted_id(questions)]]
       ELSE /\ resp' = [resp EXCEPT ![p] = [op |-> "create_question", status |-> 500]]
            /\ UNCHANGED questions
    /\ local' = [local EXCEPT ![p] = Idle]
    /\ UNCHANGED <<users, attempts, progress, now, pc>>

samples ==
    << Question("phishing", <<"o1", "o2", "o3", "o4">>, 1),
       Question("credential", <<"o1", "o2", "o3", "o4">>, 1),
       Question("rogueapps", <<"o1", "o2", "o3", "o4">>, 3) >>

\* the samples inserted whatever the count
seed_questions_always(p) ==
    /\ pc[p] = "idle"
    /\ questions' = questions \o samples
    /\ resp' = [resp EXCEPT ![p] =
           [op |-> "seed", status |-> 200, message |-> "Seeded", count |-> Len(samples)]]
    /\ local' = [local EXCEPT ![p] = Idle]
    /\ UNCHANGED <<users, attempts, progress, now, pc>>

\* seed_questions: count_documents({}), then one insert_one per sample; the
\* handler is one step, the content handlers being run one call after the other
seed_questions(p) ==
    /\ pc[p] = "idle"
    /\ LET count == Len(questions)
       IN  IF count > 0
           THEN /\ resp' = [resp EXCEPT ![p] =
                       [op |-> "seed", status |-> 200,
                        message |-> "Questions already seeded", count |-> count]]
                /\ UNCHANGED questions
           ELSE /\ questions' = questions \o samples
                /\ resp' = [resp EXCEPT ![p] =
                       [op |-> "seed", status |-> 200,
                        message |-> "Seeded", count |-> Len(samples)]]
    /\ local' = [local EXCEPT ![p] = Idle]
    /\ UNCHANGED <<users, attempts, progress, now, pc>>

\* ------------------------------------------------------------- attempts
\* the fraction cut to two decimals instead of rounded
trunc2(num, den) == (100 * num) \div den

\* round(x, 2) of the fraction num/den, in hundredths: the nearest integer to
\* 100 * num / den (no fraction of the model's bounds is a tie)
round2(num, den) == (200 * num + den) \div (2 * den)

\* the category filter left out of the fetch
questions_unfiltered(category) == questions

\* db["question"].find({"category": category}), in natural order
questions_in(category) == SelectSeq(questions, LAMBDA q : q.category = category)

RECURSIVE count_correct(_, _, _)
\* the scoring loop of submit_attempt over positions i..Len(qs)-1 (0-based)
count_correct(qs, answers, i) ==
    IF i >= Len(qs)
    THEN 0
    ELSE (IF i < Len(answers) /\ answers[i + 1] = qs[i + 1].correct_index THEN 1 ELSE 0)
         + count_correct(qs, answers, i + 1)

score_of(correct, total) == round2(correct * 100, total)

Attempt(user_id, category, answers, correct_count, total, score) ==
    [user_id |-> user_id, category |-> category, answers |-> answers,
     correct_count |-> correct_count, total |-> total, score |-> score]

\* submit_attempt, the token's lookup
submit_attempt(p, token, category, answers) ==
    /\ pc[p] = "idle"
    /\ LET user == get_user_by_token(token)
       IN  IF user = NoDoc
           THEN /\ resp' = [resp EXCEPT ![p] =
                       [op |-> "submit", token |-> token, category |-> category,
                        status |-> 401]]
                /\ local' = [local EXCEPT ![p] = Idle]
                /\ UNCHANGED pc
           ELSE /\ pc' = [pc EXCEPT ![p] = "submit_questions"]
                /\ local' = [local EXCEPT ![p] =
                       [op |-> "submit", token |-> token, user |-> user,
                        category |-> category, answers |-> answers]]
                /\ resp' = [resp EXCEPT ![p] = Idle]
    /\ UNCHANGED <<users, questions, attempts, progress, now>>

\* the Attempt record stored before the category is found empty
submit_questions_stores(p) ==
    /\ pc[p] = "submit_questions"
    /\ LET qs == questions_in(local[p].category)
           total == Len(qs)
           correct == count_correct(qs, local[p].answers, 0)
       IN  IF total = 0
           THEN /\ resp' = [resp EXCEPT ![p] =
                       [op |-> "submit", token |-> local[p].token,
                        category |-> local[p].category, status |-> 400]]
                /\ pc' = [pc EXCEPT ![p] = "idle"]
                /\ attempts' = create_document(attempts,
                                   Attempt(local[p].user, local[p].category,
                                           local[p].answers, 0, 0, 0))
                /\ UNCHANGED local
           ELSE /\ pc' = [pc EXCEPT ![p] = "submit_insert"]
                /\ local' = [local EXCEPT ![p] =
                       [op |-> "submit", token |-> local[p].token,
                        user |-> local[p].user, category |-> local[p].category,
                        answers |-> local[p].answers, questions |-> qs,
                        total |-> total, correct |-> correct,
                        score |-> score_of(correct, total)]]
                /\ UNCHANGED <<resp, attempts>>
    /\ UNCHANGED <<users, questions, progress, now>>

\* submit_attempt, the questions' fetch and the scoring
submit_questions(p) ==
    /\ pc[p] = "submit_questions"
    /\ LET qs == questions_in(local[p].category)
           total == Len(qs)
           correct == count_correct(qs, local[p].answers, 0)
       IN  IF total = 0
           THEN /\ resp' = [resp EXCEPT ![p] =
                       [op |-> "submit", token |-> local[p].token,
                        category |-> local[p].category, status |-> 400]]
                /\ pc' = [pc EXCEPT ![p] = "idle"]
                /\ UNCHANGED local
           ELSE /\ pc' = [pc EXCEPT ![p] = "submit_insert"]
                /\ local' = [local EXCEPT ![p] =
                       [op |-> "submit", token |-> local[p].token,
                        user |-> local[p].user, category |-> local[p].category,
                        answers |-> local[p].answers, questions |-> qs,
                        total |-> total, correct |-> correct,
                        score |-> score_of(correct, total)]]
                /\ UNCHANGED resp
    /\ UNCHANGED <<users, questions, attempts, progress, now>>

\* the Attempt record of the same user and category replaced when there is one
submit_insert_upsert(p) ==
    /\ pc[p] = "submit_insert"
    /\ LET doc == Attempt(local[p].user, local[p].category, local[p].answers,
                          local[p].correct, local[p].total, local[p].score)
           old == find_one({i \in 1..Len(attempts) :
                                /\ attempts[i].user_id = local[p].user
                                /\ attempts[i].category = local[p].category})
       IN  /\ attempts' = IF old = NoDoc THEN create_document(attempts, doc)
                          ELSE [attempts EXCEPT ![old] = doc]
           /\ local' = [local EXCEPT ![p] =
                  [op |-> "submit", token |-> local[p].token, user |-> local[p].user,
                   category |-> local[p].category, answers |-> local[p].answers,
                   questions |-> local[p].questions, total |-> local[p].total,
                   correct |-> local[p].correct, score |-> local[p].score,
                   attempt_id |-> IF old = NoDoc THEN inserted_id(attempts) ELSE old]]
    /\ pc' = [pc EXCEPT ![p] = "submit_progress"]
    /\ UNCHANGED <<users, questions, progress, now, resp>>

\* submit_attempt, create_document("attempt", attempt_doc)
submit_insert(p) ==
    /\ pc[p] = "submit_insert"
    /\ attempts' = create_document(attempts,
                       Attempt(local[p].user, local[p].category, local[p].answers,
                               local[p].correct, local[p].total, local[p].score))
    /\ local' = [local EXCEPT ![p] =
           [op |-> "submit", token |-> local[p].token, user |-> local[p].user,
            category |-> local[p].category, answers |-> local[p].answers,
            questions |-> local[p].questions, total |-> local[p].total,
            correct |-> local[p].correct, score |-> local[p].score,
            attempt_id |-> inserted_id(attempts)]]
    /\ pc' = [pc EXCEPT ![p] = "submit_progress"]
    /\ UNCHANGED <<users, questions, progress, now, resp>>

progress_of(user_id) ==
    find_one({i \in 1..Len(progress) : progress[i].user_id = user_id})

NoStats == [attempts |-> 0, best_score |-> 0, last_score |-> 0]

Max(a, b) == IF a >= b THEN a ELSE b

\* best_score overwritten by the newest score
updated_stats_nomax(by_cat, category, score) ==
    LET prev == IF category \in DOMAIN by_cat THEN by_cat[category] ELSE NoStats
    IN  [attempts |-> prev.attempts + 1, best_score |-> score, last_score |-> score]

\* prev and updated of submit_attempt
updated_stats(by_cat, category, score) ==
    LET prev == IF category \in DOMAIN by_cat THEN by_cat[category] ELSE NoStats
    IN  [attempts |-> prev.attempts + 1,
         best_score |-> Max(prev.best_score, score),
         last_score |-> score]

\* the mapping replaced by the new entry alone
merged_only(by_cat, category, stats) == [c \in {category} |-> stats]

\* by_cat[body.category] = updated
merged(by_cat, category, stats) ==
    [c \in DOMAIN by_cat \cup {category} |-> IF c = category THEN stats ELSE by_cat[c]]

\* submit_attempt, the Progress record's read and the new by_category
submit_progress(p) ==
    /\ pc[p] = "submit_progress"
    /\ LET prog == progress_of(local[p].user)
           by_cat == IF prog # NoDoc THEN progress[prog].by_category ELSE << >>
           updated == updated_stats(by_cat, local[p].category, local[p].score)
       IN  local' = [local EXCEPT ![p] =
               [op |-> "submit", token |-> local[p].token, user |-> local[p].user,
                category |-> local[p].category, answers |-> local[p].answers,
                questions |-> local[p].questions, total |-> local[p].total,
                correct |-> local[p].correct, score |-> local[p].score,
                attempt_id |-> local[p].attempt_id, prog |-> prog,
                read |-> by_cat,
                by_cat |-> merged(by_cat, local[p].category, updated)]]
    /\ pc' = [pc EXCEPT ![p] = "submit_write"]
    /\ UNCHANGED <<users, questions, attempts, progress, now, resp>>

StatsWithMore(a, b) == IF a.attempts >= b.attempts THEN a ELSE b

\* by_category merged into the stored mapping, category by category
write_progress_merge(prog, user_id, by_cat) ==
    IF prog # NoDoc
    THEN [progress EXCEPT ![prog].by_category =
              [c \in DOMAIN @ \cup DOMAIN by_cat |->
                   IF c \notin DOMAIN by_cat THEN @[c]
                   ELSE IF c \notin DOMAIN @ THEN by_cat[c]
                   ELSE StatsWithMore(by_cat[c], @[c])]]
    ELSE Append(progress, [user_id |-> user_id, by_category |-> by_cat])

\* if prog: update_one({"_id": prog["_id"]}, {"$set": {"by_category": by_cat}})
\* else: insert_one({"user_id": ..., "by_category": by_cat})
write_progress(prog, user_id, by_cat) ==
    IF prog # NoDoc
    THEN [progress EXCEPT ![prog].by_category = by_cat]
    ELSE Append(progress, [user_id |-> user_id, by_category |-> by_cat])

\* submit_attempt, the Progress record's write and the response
submit_write(p) ==
    /\ pc[p] = "submit_write"
    /\ progress' = write_progress(local[p].prog, local[p].user, local[p].by_cat)
    /\ resp' = [resp EXCEPT ![p] =
           [op |-> "submit", token |-> local[p].token, category |-> local[p].category,
            status |-> 200, attempt_id |-> local[p].attempt_id,
            score |-> local[p].score, correct |-> local[p].correct,
            total |-> local[p].total]]
    /\ pc' = [pc EXCEPT ![p] = "idle"]
    /\ UNCHANGED <<users, questions, attempts, now, local>>

\* submit_attempt, db["progress"].find_one raises: nothing catches the
\* exception, the request ends with a server error and the store stays as
\* the calls made so far left it
submit_progress_fails(p) ==
    /\ pc[p] = "submit_progress"
    /\ resp' = [resp EXCEPT ![p] =
           [op |-> "submit", token |-> local[p].token, category |-> local[p].category,
            status |-> 500]]
    /\ pc' = [pc EXCEPT ![p] = "idle"]
    /\ UNCHANGED <<users, questions, attempts, progress, now, local>>

\* the Attempt record of the request taken back when the write fails
submit_write_fails_rollback(p) ==
    /\ pc[p] = "submit_write"
    /\ attempts' = [i \in 1..(Len(attempts) - 1) |->
                        IF i < local[p].attempt_id THEN attempts[i] ELSE attempts[i + 1]]
    /\ resp' = [resp EXCEPT ![p] =
           [op |-> "submit", token |-> local[p].token, category |-> local[p].category,
            status |-> 500]]
    /\ pc' = [pc EXCEPT ![p] = "idle"]
    /\ UNCHANGED <<users, questions, progress, now, local>>

\* submit_attempt, update_one or insert_one of the Progress record raises:
\* the write is not applied and the request ends with a server error
submit_write_fails(p) ==
    /\ pc[p] = "submit_write"
    /\ resp' = [resp EXCEPT ![p] =
           [op |-> "submit", token |-> local[p].token, category |-> local[p].category,
            status |-> 500]]
    /\ pc' = [pc EXCEPT ![p] = "idle"]
    /\ UNCHANGED <<users, questions, attempts, progress, now, local>>

\* the by_category mapping get_progress returns for a user
by_category_of(user_id) ==
    IF progress_of(user_id) # NoDoc
    THEN progress[progress_of(user_id)].by_category
    ELSE << >>

\* get_progress: the token's lookup, then the Progress record's; both calls
\* only read the store and are taken as one step
get_progress(p, token) ==
    /\ pc[p] = "idle"
    /\ LET user == get_user_by_token(token)
       IN  IF user = NoDoc
           THEN resp' = [resp EXCEPT ![p] =
                    [op |-> "progress", token |-> token, status |-> 401]]
           ELSE resp' = [resp EXCEPT ![p] =
                    [op |-> "progress", token |-> token, status |-> 200,
                     by_category |-> by_category_of(user)]]
    /\ local' = [local EXCEPT ![p] = Idle]
    /\ UNCHANGED <<users, questions, attempts, progress, now, pc>>

\* ------------------------------------------------------------- SpecAuth
NextAuth ==
    \/ Tick
    \/ \E p \in SeqProcs, name \in Names, email \in Emails :
           /\ (Len(users) < MaxUsers \/ register_existing(email) # NoDoc)
           /\ register(p, name, email, "pw1")
    \/ \E p \in SeqProcs : register_insert(p)
    \/ \E p \in Procs, email \in Emails, password \in Passwords : login(p, email, password)
    \/ \E p \in Procs : login_update(p)

SpecAuth == Init /\ [][NextAuth]_vars

\* ------------------------------------------------------------- SpecContent
\* the content handlers, one call after the other
NextContent ==
    \/ \E p \in SeqProcs, category \in Categories, options \in OptionLists,
          correct_index \in Indices :
           Len(questions) < MaxQuestions
           /\ create_question(p, category, options, correct_index)
    \/ \E p \in SeqProcs : seed_questions(p)

SpecContent == Init /\ [][NextContent]_vars

\* ------------------------------------------------------------- SpecSeq
\* the inputs of the attempt handlers
TokenInputs == {EmptyStr} \cup {make_token(u, t) : u \in 1..MaxUsers, t \in 0..MaxClock}

RECURSIVE SeqsUpTo(_, _)
SeqsUpTo(S, n) ==
    IF n = 0 THEN {<< >>}
    ELSE LET shorter == SeqsUpTo(S, n - 1)
         IN  shorter \cup {Append(a, x) : a \in {b \in shorter : Len(b) = n - 1}, x \in S}

AnswerLists == SeqsUpTo({0, 1}, MaxAnswers)

\* one request at a time: every handler, called by a single worker
NextSeq ==
    \/ Tick
    \/ \E p \in SeqProcs, name \in Names, email \in Emails :
           /\ (Len(users) < MaxUsers \/ register_existing(email) # NoDoc)
           /\ register(p, name, email, "pw1")
    \/ \E p \in SeqProcs : register_insert(p)
    \/ \E p \in SeqProcs, email \in Emails : login(p, email, "pw1")
    \/ \E p \in SeqProcs : login_update(p)
    \/ \E p \in SeqProcs :
           Len(questions) < MaxSeqBank
           /\ create_question(p, "phishing", <<"o1", "o2">>, 0)
    \/ \E p \in SeqProcs, token \in TokenInputs, category \in Categories :
           Len(attempts) < MaxSeqAttempts /\ submit_attempt(p, token, category, <<0>>)
    \/ \E p \in SeqProcs : submit_questions(p)
    \/ \E p \in SeqProcs : submit_insert(p)
    \/ \E p \in SeqProcs : submit_progress(p)
    \/ \E p \in SeqProcs : submit_write(p)
    \/ \E p \in SeqProcs, token \in TokenInputs : get_progress(p, token)

SpecSeq == Init /\ [][NextSeq]_vars

\* ------------------------------------------------------------- SpecProgress
\* the tokens logins hand out while the clock stands at 0
IssuedTokens == {make_token(u, 0) : u \in 1..MaxUsers}

\* submissions and progress queries of several users, one request at a time
NextProgress ==
    \/ \E p \in SeqProcs, name \in Names, email \in Emails :
           /\ (Len(users) < MaxUsers \/ register_existing(email) # NoDoc)
           /\ register(p, name, email, "pw1")
    \/ \E p \in SeqProcs : register_insert(p)
    \/ \E p \in SeqProcs, email \in Emails : login(p, email, "pw1")
    \/ \E p \in SeqProcs : login_update(p)
    \/ \E p \in SeqProcs, category \in Categories :
           Len(questions) < MaxBank
           /\ create_question(p, category, <<"o1", "o2">>, 0)
    \/ \E p \in SeqProcs, token \in IssuedTokens, category \in Categories,
          answers \in {<< >>, <<0>>} :
           Len(attempts) < MaxAttempts /\ submit_attempt(p, token, category, answers)
    \/ \E p \in SeqProcs : submit_questions(p)
    \/ \E p \in SeqProcs : submit_insert(p)
    \/ \E p \in SeqProcs : submit_progress(p)
    \/ \E p \in SeqProcs : submit_write(p)
    \/ \E p \in SeqProcs, token \in IssuedTokens : get_progress(p, token)

SpecProgress == Init /\ [][NextProgress]_vars

\* ------------------------------------------------------------- SpecScore
\* one user's submissions, one at a time, over every small bank of questions
NextScore ==
    \/ \E p \in SeqProcs, name \in Names :
           /\ (Len(users) < 1 \/ register_existing("a@x.io") # NoDoc)
           /\ register(p, name, "a@x.io", "pw1")
    \/ \E p \in SeqProcs : register_insert(p)
    \/ \E p \in SeqProcs : login(p, "a@x.io", "pw1")
    \/ \E p \in SeqProcs : login_update(p)
    \/ \E p \in SeqProcs, q \in {<<"phishing", 0>>, <<"phishing", 1>>, <<"credential", 0>>} :
           Len(questions) < MaxScoreBank
           /\ create_question(p, q[1], <<"o1", "o2">>, q[2])
    \/ \E p \in SeqProcs, token \in {EmptyStr, make_token(1, 0)},
          category \in Categories, answers \in AnswerLists :
           Len(attempts) < MaxScored /\ submit_attempt(p, token, category, answers)
    \/ \E p \in SeqProcs : submit_questions(p)
    \/ \E p \in SeqProcs : submit_insert(p)
    \/ \E p \in SeqProcs : submit_progress(p)
    \/ \E p \in SeqProcs : submit_write(p)

SpecScore == Init /\ [][NextScore]_vars

\* ------------------------------------------------------------- SpecRace
\* submissions whose handler has not stored its Attempt record yet
Submitting == {q \in Procs : pc[q] \in {"submit_questions", "submit_insert"}}

\* one user's submissions, handled by concurrent workers
NextRace ==
    \/ \E p \in SeqProcs, name \in Names :
           /\ (Len(users) < 1 \/ register_existing("a@x.io") # NoDoc)
           /\ register(p, name, "a@x.io", "pw1")
    \/ \E p \in SeqProcs : register_insert(p)
    \/ \E p \in SeqProcs : login(p, "a@x.io", "pw1")
    \/ \E p \in SeqProcs : login_update(p)
    \/ \E p \in SeqProcs, category \in Categories :
           questions_in(category) = << >>
           /\ create_question(p, category, <<"o1", "o2">>, 0)
    \/ \E p \in Procs, category \in Categories :
           /\ Len(attempts) + Cardinality(Submitting) < MaxRaceAttempts
           /\ submit_attempt(p, make_token(1, 0), category, <<0>>)
    \/ \E p \in Procs : submit_questions(p)
    \/ \E p \in Procs : submit_insert(p)
    \/ \E p \in Procs : submit_progress(p)
    \/ \E p \in Procs : submit_write(p)

SpecRace == Init /\ [][NextRace]_vars

\* ------------------------------------------------------------- SpecRegRace
\* registrations whose handler has not stored its User record yet
Registering == {q \in Procs : pc[q] = "register_insert"}

\* registrations handled by concurrent workers
NextRegRace ==
    \/ \E p \in Procs, name \in Names, email \in Emails, password \in Passwords :
           /\ \/ Len(users) + Cardinality(Registering) < MaxRaceUsers
              \/ register_existing(email) # NoDoc
           /\ register(p, name, email, password)
    \/ \E p \in Procs : register_insert(p)

SpecRegRace == Init /\ [][NextRegRace]_vars

\* ------------------------------------------------------------- SpecFail
\* one user's submissions, one at a time, over a store whose calls of the
\* Progress read-modify-write may fail
NextFail ==
    \/ \E p \in SeqProcs, name \in Names :
           /\ (Len(users) < 1 \/ register_existing("a@x.io") # NoDoc)
           /\ register(p, name, "a@x.io", "pw1")
    \/ \E p \in SeqProcs : register_insert(p)
    \/ \E p \in SeqProcs : login(p, "a@x.io", "pw1")
    \/ \E p \in SeqProcs : login_update(p)
    \/ \E p \in SeqProcs, category \in Categories :
           questions_in(category) = << >>
           /\ create_question(p, category, <<"o1", "o2">>, 0)
    \/ \E p \in SeqProcs, category \in Categories :
           Len(attempts) < MaxFailAttempts
           /\ submit_attempt(p, make_token(1, 0), category, <<0>>)
    \/ \E p \in SeqProcs : submit_questions(p)
    \/ \E p \in SeqProcs : submit_insert(p)
    \/ \E p \in SeqProcs : submit_progress(p)
    \/ \E p \in SeqProcs : submit_progress_fails(p)
    \/ \E p \in SeqProcs : submit_write(p)
    \/ \E p \in SeqProcs : submit_write_fails(p)

SpecFail == Init /\ [][NextFail]_vars

\* ------------------------------------------------------------- SpecLog
\* every operation of the service: one user's submissions handled by
\* concurrent workers, the other operations by a single worker
NextLog ==
    \/ \E p \in SeqProcs, name \in Names :
           /\ (Len(users) < 1 \/ register_existing("a@x.io") # NoDoc)
           /\ register(p, name, "a@x.io", "pw1")
    \/ \E p \in SeqProcs : register_insert(p)
    \/ \E p \in SeqProcs : login(p, "a@x.io", "pw1")
    \/ \E p \in SeqProcs : login_update(p)
    \/ \E p \in SeqProcs :
           questions_in("phishing") = << >>
           /\ create_question(p, "phishing", <<"o1", "o2">>, 0)
    \/ \E p \in SeqProcs : seed_questions(p)
    \/ \E p \in Procs :
           /\ Len(attempts) + Cardinality(Submitting) < MaxLogAttempts
           /\ submit_attempt(p, make_token(1, 0), "phishing", <<0>>)
    \/ \E p \in Procs : submit_questions(p)
    \/ \E p \in Procs : submit_insert(p)
    \/ \E p \in Procs : submit_progress(p)
    \/ \E p \in Procs : submit_write(p)
    \/ \E p \in SeqProcs : get_progress(p, make_token(1, 0))

SpecLog == Init /\ [][NextLog]_vars

\* ============================================================= claims
AllIdle == \A p \in Procs : pc[p] = "idle"

\* the Attempt records of a user for a category, as positions of the log
AttemptsOf(user_id, category) ==
    {i \in 1..Len(attempts) : attempts[i].user_id = user_id
                              /\ attempts[i].category = category}

\* the by_category mapping a successful get_progress(token) returns
ProgressReport(token) == by_category_of(get_user_by_token(token))

\* the step taken is the login_update of a login of user u
LoginCompletes(u) ==
    \E p \in Procs : pc[p] = "login_update" /\ pc'[p] = "idle" /\ local[p].user = u

\* ------------------------------------------------------------- C1
\* C1: with submissions executed one at a time, whenever no request is in
\* flight, for every token that resolves to a user u and every category c u
\* has Attempt records for, getProgress reports by_category[c] with attempts =
\* the number of those records, best_score = their maximum score and
\* last_score = the score of the most recent one.
C1_ProgressMatchesLog ==
    AllIdle =>
        \A token \in TokenInputs, c \in Categories :
            LET u == get_user_by_token(token)
                mine == AttemptsOf(u, c)
                newest == CHOOSE i \in mine : \A j \in mine : j <= i
            IN  (u # NoDoc /\ mine # {}) =>
                    /\ c \in DOMAIN ProgressReport(token)
                    /\ ProgressReport(token)[c].attempts = Cardinality(mine)
                    /\ \E i \in mine :
                           /\ ProgressReport(token)[c].best_score = attempts[i].score
                           /\ \A j \in mine : attempts[j].score <= attempts[i].score
                    /\ ProgressReport(token)[c].last_score = attempts[newest].score

\* two submissions of one user to one category, the second scoring lower, and
\* the report gives attempts 2, the first score as best, the second as last
C1_Witness ==
    /\ AllIdle
    /\ Len(attempts) = 2
    /\ attempts[1].user_id = attempts[2].user_id
    /\ attempts[1].category = attempts[2].category
    /\ attempts[2].score < attempts[1].score
    /\ \E token \in TokenInputs :
           /\ get_user_by_token(token) = attempts[1].user_id
           /\ ProgressReport(token)[attempts[1].category] =
                  [attempts |-> 2, best_score |-> attempts[1].score,
                   last_score |-> attempts[2].score]

\* ------------------------------------------------------------- C2
\* the step taken is p's write of the Progress record
ProgressWrite(p) == pc[p] = "submit_write" /\ pc'[p] = "idle"

\* the Progress record p read is not what the store holds when p writes
StaleSnapshot(p) ==
    IF local[p].prog = NoDoc
    THEN progress_of(local[p].user) # NoDoc
    ELSE progress[local[p].prog].by_category # local[p].read

\* the report of a user misses a submission of the log
LostUpdate(by_cat, user_id) ==
    \E c \in Categories :
        /\ AttemptsOf(user_id, c) # {}
        /\ \/ c \notin DOMAIN by_cat
           \/ by_cat[c].attempts < Cardinality(AttemptsOf(user_id, c))

\* the report of a user never counts more than the log holds
C2_NeverOverCounts ==
    \A u \in 1..Len(users) :
        \A c \in DOMAIN by_category_of(u) :
            by_category_of(u)[c].attempts <= Cardinality(AttemptsOf(u, c))

\* a submit that writes over a Progress record changed since it read it still
\* succeeds, every Attempt record stays stored, and the report then misses a
\* submission of the log
C2_StaleWriteLoses ==
    \A p \in Procs :
        ProgressWrite(p) =>
            /\ resp'[p].status = 200
            /\ attempts' = attempts
            /\ attempts[resp'[p].attempt_id].user_id = local[p].user
            /\ attempts[resp'[p].attempt_id].category = local[p].category
            /\ StaleSnapshot(p)
                   => LET report == IF progress_of(local[p].user) # NoDoc
                                    THEN progress'[progress_of(local[p].user)].by_category
                                    ELSE progress'[Len(progress')].by_category
                      IN  LostUpdate(report, local[p].user)

\* C2: two submits of one user that both read the Progress record before
\* either writes it both succeed and both store their Attempt record, and the
\* Progress record then reflects one of the two updates only: attempts of a
\* category is below the number of its Attempt records, or an attempted
\* category has no entry.
C2_LostUpdate == []C2_NeverOverCounts /\ [][C2_StaleWriteLoses]_vars

\* both workers answered 200 to submits that read the same existing Progress
\* record, for two different categories, and the report has no more than one
\* of the two updates
C2_Witness ==
    \E p, q \in Procs :
        /\ p # q /\ AllIdle
        /\ resp[p].op = "submit" /\ resp[p].status = 200
        /\ resp[q].op = "submit" /\ resp[q].status = 200
        /\ local[p].prog # NoDoc /\ local[q].prog = local[p].prog
        /\ local[p].read = local[q].read
        /\ local[p].category # local[q].category
        /\ resp[p].attempt_id # resp[q].attempt_id
        /\ by_category_of(local[p].user) \in {local[p].by_cat, local[q].by_cat}
        /\ LostUpdate(by_category_of(local[p].user), local[p].user)

\* ------------------------------------------------------------- C4
\* a login of user u completes and replaces a token u held: that earlier
\* token resolves to no user afterwards
C4_EarlierTokenDies ==
    \A u \in 1..Len(users) :
        (LoginCompletes(u) /\ users[u].token # None)
            => find_token(users', users[u].token) = NoDoc

\* the same, for a login that stores a token different from the earlier one
C4_ReplacedTokenDies ==
    \A p \in Procs :
        (/\ pc[p] = "login_update" /\ pc'[p] = "idle"
         /\ users[local[p].user].token # None
         /\ resp'[p].token # users[local[p].user].token)
            => /\ find_token(users', users[local[p].user].token) = NoDoc
               /\ find_token(users', resp'[p].token) = local[p].user

\* a token that resolves to its owner keeps doing so across every step that is
\* not the completion of a login of the owner
C4_TokenStaysValid ==
    \A u \in 1..Len(users) :
        (users[u].token # None /\ get_user_by_token(users[u].token) = u
         /\ ~LoginCompletes(u))
            => find_token(users', users[u].token) = u

\* submit and getProgress called with a token that resolves to no user fail
\* with 401
C4_UnresolvedIsUnauthorized ==
    \A p \in Procs :
        (pc[p] = "idle" /\ resp'[p] # resp[p] /\ resp'[p].op \in {"submit", "progress"})
            => (resp'[p].status = 401 <=> get_user_by_token(resp'[p].token) = NoDoc)

\* C4 as claimed: after a user's second successful login the token of the
\* earlier login resolves to no user, and a token stays valid across every
\* other operation until its owner logs in again.
C4_Original ==
    [][C4_EarlierTokenDies /\ C4_TokenStaysValid /\ C4_UnresolvedIsUnauthorized]_vars

\* C4 amended: after a user's second successful login that returned a token
\* different from the earlier one, the earlier token resolves to no user
\* (submit and getProgress with it fail 401); a token stays valid across
\* every other operation until its owner logs in again.
C4_Amended ==
    [][C4_ReplacedTokenDies /\ C4_TokenStaysValid /\ C4_UnresolvedIsUnauthorized]_vars

\* a user holds the token of a second login, taken at a later clock reading
\* than the first, and a request made with the first token was refused
C4_Witness ==
    \E u \in 1..Len(users), p \in Procs :
        /\ users[u].token = make_token(u, 1)
        /\ pc[p] = "idle"
        /\ resp[p].op \in {"submit", "progress"}
        /\ resp[p].token = make_token(u, 0)
        /\ resp[p].status = 401

\* ------------------------------------------------------------- C7
\* a register call is refused exactly when a stored user has its email, and a
\* refused call stores nothing
C7_DuplicateRefused ==
    \A p \in Procs :
        /\ (pc[p] = "idle" /\ resp'[p] # resp[p] /\ resp'[p].op = "register")
               => /\ resp'[p].status = 400
                  /\ users' = users
                  /\ \E u \in 1..Len(users) : users[u].email = resp'[p].email
        /\ (pc[p] = "idle" /\ pc'[p] = "register_insert")
               => \A u \in 1..Len(users) : users[u].email # local'[p].email

\* an accepted register call stores one user under a new id and returns it
C7_FreshId ==
    \A p \in Procs :
        (pc[p] = "register_insert" /\ pc'[p] = "idle")
            => /\ resp'[p].status = 200
               /\ resp'[p].user_id \notin 1..Len(users)
               /\ Len(users') = Len(users) + 1
               /\ \A u \in 1..Len(users) : users'[u] = users[u]
               /\ users'[resp'[p].user_id].email = local[p].email

\* C7: with register calls executed one at a time, a call whose email is that
\* of a stored user fails with 400 and adds no user record, and calls with
\* pairwise distinct emails all succeed and return pairwise distinct ids.
C7_Register ==
    /\ [](\A u, v \in 1..Len(users) : users[u].email = users[v].email => u = v)
    /\ [][C7_DuplicateRefused /\ C7_FreshId]_vars

\* two users are stored under different emails and a further register call
\* with one of these emails was refused
C7_Witness ==
    \E p \in Procs :
        /\ Len(users) = 2
        /\ users[1].email # users[2].email
        /\ pc[p] = "idle"
        /\ resp[p].op = "register"
        /\ resp[p].status = 400
        /\ resp[p].email = users[2].email

\* ------------------------------------------------------------- C3
\* the token a login returns resolves to the user who logged in, at once
C3_TokenResolvesAtLogin ==
    \A p \in Procs :
        (pc[p] = "login_update" /\ pc'[p] = "idle")
            => /\ resp'[p].status = 200
               /\ resp'[p].user = login_user(resp'[p].email, resp'[p].password)
               /\ find_token(users', resp'[p].token) = resp'[p].user

\* and it keeps resolving to that user across every step in which no login of
\* that user completes
C3_TokenKeepsResolving ==
    \A p \in Procs :
        (/\ pc[p] = "idle" /\ resp[p].op = "login" /\ resp[p].status = 200
         /\ get_user_by_token(resp[p].token) = resp[p].user
         /\ ~LoginCompletes(resp[p].user))
            => find_token(users', resp[p].token) = resp[p].user

\* C3: every successful login returns a token that resolves to the user who
\* logged in and to no other, for as long as that user does not log in again.
C3_LoginTokenResolves == [][C3_TokenResolvesAtLogin /\ C3_TokenKeepsResolving]_vars

\* two users hold tokens of logins taken at the same clock reading, and the
\* token returned to the second one resolves to the second one
C3_Witness ==
    \E p \in Procs :
        /\ Len(users) = 2
        /\ users[1].token = make_token(1, 0)
        /\ users[2].token = make_token(2, 0)
        /\ pc[p] = "idle"
        /\ resp[p].op = "login" /\ resp[p].status = 200
        /\ resp[p].user = 2
        /\ get_user_by_token(resp[p].token) = 2

\* ------------------------------------------------------------- C10
\* a login is refused exactly when no stored user has its email and the hash
\* of its password; the refusal carries no token and changes no user record
C10_RefusedLogin ==
    \A p \in Procs :
        /\ (pc[p] = "idle" /\ resp'[p] # resp[p] /\ resp'[p].op = "login")
               => /\ resp'[p].status = 401
                  /\ "token" \notin DOMAIN resp'[p]
                  /\ users' = users
                  /\ \A token \in TokenInputs :
                         find_token(users', token) = get_user_by_token(token)
                  /\ \A u \in 1..Len(users) :
                         ~(/\ users[u].email = resp'[p].email
                           /\ users[u].password_hash = hash_password(resp'[p].password))
        /\ (pc[p] = "idle" /\ pc'[p] = "login_update")
               => /\ users[local'[p].user].email = local'[p].email
                  /\ users[local'[p].user].password_hash
                         = hash_password(local'[p].password)

\* C10: a login with a wrong password or an unknown email fails with 401,
\* issues no token and leaves every stored token unchanged, so every token
\* resolves after it to the user it resolved to before.
C10_FailedLogin == [][C10_RefusedLogin]_vars

\* a login with the email of a user who holds a token, under another
\* password than that user's, was refused
C10_Witness ==
    \E p \in Procs, u \in 1..Len(users) :
        /\ pc[p] = "idle"
        /\ resp[p].op = "login" /\ resp[p].status = 401
        /\ users[u].email = resp[p].email
        /\ users[u].password_hash # hash_password(resp[p].password)
        /\ users[u].token # None
        /\ get_user_by_token(users[u].token) = u

\* ------------------------------------------------------------- C5
\* the store holds no question of the category
NoQuestionOf(category) ==
    \A i \in 1..Len(questions) : questions[i].category # category

\* the step taken is p's submit call answered at the token's lookup
SubmitRefusedAtToken(p) ==
    pc[p] = "idle" /\ resp'[p] # resp[p] /\ resp'[p].op = "submit"

\* the step taken is p's submit call answered at the questions' fetch
SubmitRefusedAtFetch(p) ==
    pc[p] = "submit_questions" /\ pc'[p] = "idle"

\* C5 as claimed: a submit on a category that has no question fails with 400,
\* whether or not its token resolves to a user.
C5_Original ==
    [][\A p \in Procs :
           /\ (SubmitRefusedAtToken(p) /\ NoQuestionOf(resp'[p].category))
                  => resp'[p].status = 400
           /\ (pc[p] = "submit_questions" /\ pc'[p] # pc[p]
               /\ NoQuestionOf(local[p].category))
                  => (pc'[p] = "idle" /\ resp'[p].status = 400)]_vars

\* C5 amended: a submit on a category that has no question fails with 400
\* when its token resolves to a user, and with 401 when it does not; in
\* neither case is anything stored.
C5_Amended ==
    [][\A p \in Procs :
           /\ SubmitRefusedAtToken(p)
                  => /\ resp'[p].status = 401
                     /\ get_user_by_token(resp'[p].token) = NoDoc
           /\ (pc[p] = "idle" /\ pc'[p] = "submit_questions")
                  => get_user_by_token(local'[p].token) = local'[p].user
           /\ (pc[p] = "submit_questions" /\ pc'[p] # pc[p])
                  => IF NoQuestionOf(local[p].category)
                     THEN /\ pc'[p] = "idle"
                          /\ resp'[p].status = 400
                          /\ resp'[p].category = local[p].category
                     ELSE pc'[p] = "submit_insert"
           /\ (SubmitRefusedAtToken(p) \/ SubmitRefusedAtFetch(p))
                  => UNCHANGED <<users, questions, attempts, progress>>]_vars

\* a submit with a resolving token on a category without questions, while
\* another category has some, was refused with 400
C5_Witness ==
    \E p \in Procs :
        /\ pc[p] = "idle"
        /\ resp[p].op = "submit" /\ resp[p].status = 400
        /\ get_user_by_token(resp[p].token) # NoDoc
        /\ NoQuestionOf(resp[p].category)
        /\ questions # << >>

\* ------------------------------------------------------------- C6
\* the positions of qs that answers gets right
RightPositions(qs, answers) ==
    {i \in 1..Len(qs) : i <= Len(answers) /\ answers[i] = qs[i].correct_index}

\* a submission that passed the questions' fetch
Scored(p) == local[p].op = "submit" /\ "total" \in DOMAIN local[p]

\* total and correct of a scored submission, and the record and the response
\* that carry them
C6_Counts(p) ==
    /\ local[p].total = Len(local[p].questions)
    /\ local[p].total > 0
    /\ local[p].correct = Cardinality(RightPositions(local[p].questions, local[p].answers))
    /\ (pc[p] = "submit_insert")
           => local[p].questions = questions_in(local[p].category)
    /\ ("attempt_id" \in DOMAIN local[p])
           => attempts[local[p].attempt_id] =
                  Attempt(local[p].user, local[p].category, local[p].answers,
                          local[p].correct, local[p].total, local[p].score)
    /\ (pc[p] = "idle")
           => /\ resp[p].status = 200
              /\ resp[p].total = local[p].total
              /\ resp[p].correct = local[p].correct
              /\ resp[p].score = local[p].score

\* C6 as claimed: total = N, correct = the number of positions i < N with
\* i < len(answers) and answers[i] = q_i.correct_index, score = 100 * correct
\* / total.
C6_Original ==
    \A p \in Procs :
        Scored(p) => (C6_Counts(p) /\ local[p].score * local[p].total
                                          = 10000 * local[p].correct)

\* C6 amended: total = N, correct = the number of positions i < N with
\* i < len(answers) and answers[i] = q_i.correct_index, and score is 100 *
\* correct / total rounded to two decimals; answers beyond position N are
\* ignored and a short answers list is no error; all answers right gives
\* correct = total and score 100, and no answers gives correct 0 and score 0.
C6_Amended ==
    \A p \in Procs :
        Scored(p) =>
            /\ C6_Counts(p)
            /\ 2 * local[p].score * local[p].total
                   <= 2 * 10000 * local[p].correct + local[p].total
            /\ 2 * local[p].score * local[p].total
                   >= 2 * 10000 * local[p].correct - local[p].total
            /\ (\A i \in 1..local[p].total :
                    /\ i <= Len(local[p].answers)
                    /\ local[p].answers[i] = local[p].questions[i].correct_index)
                   => (local[p].correct = local[p].total /\ local[p].score = 10000)
            /\ (local[p].answers = << >>)
                   => (local[p].correct = 0 /\ local[p].score = 0)

\* a completed submission over three questions with two answers, the first
\* right and the second wrong: correct 1, score 33.33
C6_Witness ==
    \E p \in Procs :
        /\ pc[p] = "idle" /\ Scored(p)
        /\ resp[p].status = 200
        /\ resp[p].total = 3
        /\ Len(local[p].answers) = 2
        /\ RightPositions(local[p].questions, local[p].answers) = {1}
        /\ resp[p].correct = 1
        /\ resp[p].score = 3333

\* ------------------------------------------------------------- C8
\* C8: seed inserts the three samples only into an empty question collection
\* and reports 3; on a collection that holds any question it changes nothing
\* and reports the count it found.
C8_SeedIdempotent ==
    [][\A p \in Procs :
           (pc[p] = "idle" /\ resp'[p] # resp[p] /\ resp'[p].op = "seed")
               => IF questions = << >>
                  THEN /\ questions' = samples
                       /\ resp'[p].count = 3
                       /\ {questions'[i].category : i \in 1..3}
                              = {"phishing", "credential", "rogueapps"}
                  ELSE /\ questions' = questions
                       /\ resp'[p].count = Len(questions)]_vars

\* seed was called on the store an earlier seed had filled: it reported the
\* three questions it found and the store holds exactly these
C8_Witness ==
    \E p \in Procs :
        /\ pc[p] = "idle"
        /\ resp[p].op = "seed"
        /\ resp[p].message = "Questions already seeded"
        /\ resp[p].count = 3
        /\ questions = samples

\* ------------------------------------------------------------- C9
\* C9: every stored Question has 0 <= correct_index < len(options).
C9_IndexInBounds ==
    \A i \in 1..Len(questions) :
        /\ 0 <= questions[i].correct_index
        /\ questions[i].correct_index < Len(questions[i].options)

\* ------------------------------------------------------------- C11
\* the by_category mapping of a user in a given state of the progress
\* collection, the empty mapping when the user has no record
ReportIn(coll, user_id) ==
    LET hits == {i \in 1..Len(coll) : coll[i].user_id = user_id}
    IN  IF hits = {} THEN << >>
        ELSE coll[CHOOSE i \in hits : \A j \in hits : i <= j].by_category

\* the write of a submit of user u for category c touches the entry of c in
\* u's record and nothing else
C11_WriteFrame ==
    \A p \in Procs :
        ProgressWrite(p) =>
            LET u == local[p].user
                c == local[p].category
                old == ReportIn(progress, u)
                new == ReportIn(progress', u)
            IN  /\ DOMAIN new = DOMAIN old \cup {c}
                /\ \A d \in DOMAIN old \ {c} : new[d] = old[d]
                /\ new[c].attempts = (IF c \in DOMAIN old THEN old[c].attempts ELSE 0) + 1
                /\ \A i \in 1..Len(progress) :
                       progress[i].user_id # u => progress'[i] = progress[i]
                /\ IF old = << >> /\ \A i \in 1..Len(progress) : progress[i].user_id # u
                   THEN /\ Len(progress') = Len(progress) + 1
                        /\ progress'[Len(progress')].user_id = u
                        /\ DOMAIN progress'[Len(progress')].by_category = {c}
                   ELSE Len(progress') = Len(progress)
                /\ UNCHANGED <<users, questions, attempts>>

\* C11: a successful submit by user u for category c, overlapping no other
\* submit, changes only the entry by_category[c] of u's Progress record: u's
\* other categories and the records of other users stay as they were, and a
\* record inserted for u holds the category c alone.
C11_FrameEffect == [][C11_WriteFrame]_vars

\* a user who had an entry for one category submitted for the other one: the
\* report holds both, the older one with the score of the first submission
C11_Witness ==
    \E p \in Procs :
        /\ AllIdle
        /\ resp[p].op = "submit" /\ resp[p].status = 200
        /\ Len(attempts) = 2
        /\ attempts[1].user_id = attempts[2].user_id
        /\ attempts[1].category # attempts[2].category
        /\ attempts[2].category = resp[p].category
        /\ DOMAIN ReportIn(progress, attempts[1].user_id) = Categories
        /\ ReportIn(progress, attempts[1].user_id)[attempts[1].category].last_score
               = attempts[1].score

\* ------------------------------------------------------------- C12
\* C12: in every reachable state, those reached by interleaved submits of a
\* user without a Progress record included, there is at most one Progress
\* record per user.
C12_OneProgressPerUser ==
    \A i, j \in 1..Len(progress) :
        progress[i].user_id = progress[j].user_id => i = j

\* ------------------------------------------------------------- C13
\* the attempts count a collection of Progress records holds for (user, category)
CountIn(coll, user_id, category) ==
    LET report == ReportIn(coll, user_id)
    IN  IF category \in DOMAIN report THEN report[category].attempts ELSE 0

\* the number of Attempt records of a log for (user, category)
LoggedIn(coll, user_id, category) ==
    Cardinality({i \in 1..Len(coll) : coll[i].user_id = user_id
                                      /\ coll[i].category = category})

\* the step ends p's submit, after its Attempt insert, other than with a 200
SubmitBreaks(p) ==
    /\ pc[p] \in {"submit_progress", "submit_write"}
    /\ pc'[p] = "idle"
    /\ resp'[p].status # 200

C13_FailedStep ==
    \A p \in Procs :
        /\ SubmitBreaks(p) =>
               LET u == local[p].user  c == local[p].category
               IN  /\ resp'[p].op = "submit" /\ resp'[p].status = 500
                   /\ attempts' = attempts
                   /\ local[p].attempt_id \in 1..Len(attempts')
                   /\ attempts'[local[p].attempt_id] =
                          Attempt(u, c, local[p].answers, local[p].correct,
                                  local[p].total, local[p].score)
                   /\ progress' = progress
                   /\ CountIn(progress, u, c) = LoggedIn(attempts, u, c) - 1
                          => CountIn(progress', u, c) = LoggedIn(attempts', u, c) - 1
                   /\ CountIn(progress', u, c) < LoggedIn(attempts', u, c)
        \* no step leads back to a call already made
        /\ pc[p] = "submit_progress" => pc'[p] \in {"submit_progress", "submit_write", "idle"}
        /\ pc[p] = "submit_write" => pc'[p] \in {"submit_write", "idle"}

C14_UniqueEmails ==
    \A i, j \in 1..Len(users) : users[i].email = users[j].email => i = j

\* ------------------------------------------------------------- C15
\* the step taken answers p's submit with the given status before any write
SubmitRefused(p, status) ==
    /\ pc[p] \in {"idle", "submit_questions"}
    /\ pc'[p] = "idle"
    /\ resp'[p] # resp[p]
    /\ resp'[p].op = "submit"
    /\ resp'[p].status = status

C15_RefusedStep ==
    \A p \in Procs :
        /\ (SubmitRefused(p, 401) \/ SubmitRefused(p, 400))
               => /\ attempts' = attempts
                  /\ progress' = progress
                  /\ users' = users /\ questions' = questions
        \* a refusal at the questions' fetch follows a token lookup that
        \* stored nothing either
        /\ (pc[p] = "idle" /\ pc'[p] = "submit_questions")
               => /\ attempts' = attempts
                  /\ progress' = progress
        \* and nothing is stored for the request when it is refused
        /\ SubmitRefused(p, 400)
               => \A i \in 1..Len(attempts') :
                      ~(attempts'[i].user_id = local[p].user
                        /\ attempts'[i].category = local[p].category)

\* C15: a submit that fails with Unauthorized (401, the token resolves to no
\* user) or with NoContent (400, the category has no question) changes nothing
\* in the store: no Attempt record is inserted and every Progress record stays
\* as it was.
C15_RefusedSubmitStoresNothing == [][C15_RefusedStep]_vars

\* a logged-in user's submit for a category without questions was answered
\* 400 while the bank holds questions of the other category
C15_Witness ==
    \E p \in Procs :
        /\ AllIdle
        /\ resp[p].op = "submit" /\ resp[p].status = 400
        /\ get_user_by_token(resp[p].token) # NoDoc
        /\ NoQuestionOf(resp[p].category)
        /\ Len(questions) >= 1
        /\ attempts = << >> /\ progress = << >>

\* ------------------------------------------------------------- C16
\* every record of the log is still there, at its place and as it was
LogKept ==
    /\ Len(attempts') >= Len(attempts)
    /\ \A i \in 1..Len(attempts) : attempts'[i] = attempts[i]

\* the step taken is the one that completes p's submit with a 200
SubmitSucceeds(p) ==
    pc[p] = "submit_write" /\ pc'[p] = "idle" /\ resp'[p].status = 200

C16_LogStep ==
    /\ LogKept
    /\ Len(attempts') <= Len(attempts) + 1
    \* a step other than the insert of a submit leaves the log as it is
    /\ (\A q \in Procs : ~(pc[q] = "submit_insert" /\ pc'[q] # pc[q]))
           => attempts' = attempts
    /\ \A p \in Procs :
           \* the log grows at the insert of a submit, by that submit's record
           /\ (pc[p] = "submit_insert" /\ pc'[p] # pc[p])
                  => /\ Len(attempts') = Len(attempts) + 1
                     /\ local'[p].attempt_id = Len(attempts')
                     /\ attempts'[Len(attempts')] =
                            [user_id |-> local[p].user,
                             category |-> local[p].category,
                             answers |-> local[p].answers,
                             correct_count |-> local[p].correct,
                             total |-> local[p].total,
                             score |-> local[p].score]
                     /\ local[p].user = get_user_by_token(local[p].token)
           \* a submit answered 200 has its one record in the log
           /\ SubmitSucceeds(p)
                  => /\ resp'[p].attempt_id \in 1..Len(attempts')
                     /\ attempts'[resp'[p].attempt_id].user_id = local[p].user
                     /\ attempts'[resp'[p].attempt_id].category = resp'[p].category
                     /\ attempts'[resp'[p].attempt_id].answers = local[p].answers
                     /\ attempts'[resp'[p].attempt_id].score = resp'[p].score
                     /\ \A q \in Procs \ {p} :
                            (pc[q] \in {"submit_progress", "submit_write"}
                             \/ (pc[q] = "idle" /\ resp[q].op = "submit"
                                 /\ resp[q].status = 200))
                                => (IF pc[q] = "idle" THEN resp[q].attempt_id
                                    ELSE local[q].attempt_id) # resp'[p].attempt_id

\* C16: the Attempt collection is an append-only log: each successful submit
\* adds exactly one Attempt record, which carries the submitting user's id, the
\* category, the full answers list, correct_count, total and score, and no
\* step of any operation changes or removes a record of the log, so the log
\* only grows.
C16_AppendOnly == [][C16_LogStep]_vars

\* two submits of one user for one category were answered 200 and the log
\* holds a record for each
C16_Witness ==
    /\ AllIdle
    /\ Len(attempts) >= 2
    /\ attempts[1].user_id = attempts[2].user_id
    /\ attempts[1].category = attempts[2].category
    /\ \E p \in Procs : resp[p].op = "submit" /\ resp[p].status = 200
                        /\ resp[p].attempt_id = 2

\* ------------------------------------------------------------- C17
\* the step taken answers p's get_progress call with a report
ProgressServed(p) ==
    /\ pc[p] = "idle" /\ pc'[p] = "idle"
    /\ resp'[p] # resp[p]
    /\ resp'[p].op = "progress"
    /\ resp'[p].status = 200

C17_Step ==
    \* a User record is created without a token, and only the update of a
    \* successful login gives it one
    /\ \A u \in 1..Len(users') :
           users'[u].token # (IF u \in 1..Len(users) THEN users[u].token ELSE None)
               => LoginCompletes(u)
    \* a token resolves to a user from the completion of one of their logins on
    /\ \A token \in TokenInputs :
           LET u == find_token(users', token)
           IN  u # NoDoc => /\ users'[u].token # None
                            /\ (find_token(users, token) = u \/ LoginCompletes(u))
    \* submit and get_progress go on for such a user only
    /\ \A p \in Procs :
           /\ (pc[p] = "idle" /\ pc'[p] = "submit_questions")
                  => users[local'[p].user].token # None
           /\ ProgressServed(p)
                  => /\ find_token(users, resp'[p].token) # NoDoc
                     /\ users[find_token(users, resp'[p].token)].token # None

\* C17: a user who has registered but has not completed a successful login is
\* resolved by no token, the empty string included: get_user_by_token returns
\* no user or a user whose token a completed login stored, so that submit and
\* get_progress only ever act for a user who has logged in.
C17_NeverLoggedInUnresolvable == [][C17_Step]_vars

\* of two registered users one has logged in and is resolved by their token,
\* the other has not and is resolved by no token
C17_Witness ==
    /\ AllIdle
    /\ Len(users) = 2
    /\ users[1].token = None
    /\ users[2].token # None
    /\ find_token(users, users[2].token) = 2
    /\ find_token(users, EmptyStr) = NoDoc
    /\ \A token \in TokenInputs : find_token(users, token) # 1

====
